---- MODULE Spec2Model ----
(***************************************************************************)
(* State-machine model of MaidSafe-Vault-Manager's local messaging layer:  *)
(*   - TcpConnection (src/maidsafe/vault_manager/tcp_connection.cc): the   *)
(*     length-prefixed framed channel over a loopback socket, driven by a  *)
(*     single-threaded io_service;                                         *)
(*   - SharedMemoryCommunication                                           *)
(*     (src/maidsafe/lifestuff_manager/shared_memory_communication.h): the *)
(*     named shared-memory bidirectional queue with a receiving thread.    *)
(***************************************************************************)
EXTENDS Naturals, Sequences, FiniteSets, TLC

(***************************************************************************)
(* Bounds of the model.                                                    *)
(***************************************************************************)
MaxCalls == 4
MaxRawWrites == 2
MaxConstructions == 3
MaxPushes == 2
MaxRegCalls == 5

(***************************************************************************)
(* Program constants.  tcp_connection.h is not among the sources; the      *)
(* maximum frame length is scaled down so that payloads of every legal     *)
(* length, and one too long, are enumerated.                               *)
(***************************************************************************)
MaxMessageSize == 2
DataSizeBytes == 4
ByteMod == 256

Endpoints == {1, 2}
Peer(e) == 3 - e
\* The functors handed to Start: the n-th call at an endpoint passes the pair
\* numbered n, so every call passes functors of its own.
Callbacks == 1..MaxCalls
Payloads == {<<>>, <<1>>, <<2, 1>>, <<1, 2, 2>>}
\* What a non-conforming peer writes at a time: length prefixes announcing 0, 1,
\* MaxMessageSize, MaxMessageSize + 1 and 2^24 bytes, half a prefix, and one
\* body byte.
RawChunks == {<<0, 0, 0, 0>>, <<0, 0, 0, 1>>, <<0, 0, 0, MaxMessageSize>>,
              <<0, 0, 0, MaxMessageSize + 1>>, <<1, 0, 0, 0>>, <<0, 0>>, <<2>>}

VARIABLES
  start_flag,            \* std::once_flag of Start, per endpoint
  socket_close_flag,     \* std::once_flag of DoClose
  sockOpen,              \* socket_.is_open()
  on_message_received,   \* registered message functor (0: empty)
  on_connection_closed,  \* registered closed functor (0: empty)
  size_buffer,           \* receiving_message_.size_buffer
  data_buffer,           \* receiving_message_.data_buffer
  send_queue,            \* std::deque<SendingMessage>
  ioq,                   \* handlers queued on the io_service, FIFO
  rops,                  \* asio::async_read operations outstanding on the socket
  wops,                  \* asio::async_write operations outstanding on the socket
  wire,                  \* bytes in flight towards each endpoint
  delivered,             \* history: invocations of the message functor
  closedCalls,           \* history: invocations of the closed functor
  shutdowns,             \* history: runs of the shutdown/close sequence
  sendLog,               \* history: the calls of Send, in order: payload and outcome
  enqueued,              \* history: payloads in the order their enqueue callbacks ran
  wrote,                 \* history: every byte written to the socket
  startCalls, closeCalls, \* history: calls of Start and of Close
  nErr,                  \* history: I/O errors of the operating system
  nRaw                   \* history: writes of a non-conforming peer

VARIABLES
  nameRegion,            \* the OS name of the queue's shared memory: region id, 0 if none
  regions,               \* the shared-memory objects: size set, queue built, both queues
  pc,                    \* where each process is in constructor / destructor
  shared_memory,         \* shared_memory_: the object held (region id, 0: null)
  mapped_region,         \* mapped_region_: the region mapped (region id, 0: null)
  message_queue,         \* message_queue_: the queue pointed to (region id, 0: null)
  receive_flag,          \* receive_flag_
  receive_future,        \* receive_future_: the receiving thread
  ctorResult,            \* history: outcome of the last constructor call
  constructions,         \* history: constructor calls
  pushCalls,             \* history: PushMessage calls
  lastPush,              \* history: the last PushMessage call: caller, size, outcome
  pushPending,           \* the message a blocked PushMessage is waiting to enqueue
  notified               \* history: messages handed to message_notifier_

VARIABLES
  regName,               \* the OS name "lifestuff_manager": region id, 0 if none
  regMem,                \* the shared-memory objects of that name: size set, SafeAddress
  regPc,                 \* where each writer / reader is in its constructor
  regObj,                \* shared_memory_: the object held (region id, 0: none)
  safe_address,          \* safe_address_: the SafeAddress pointed to (region id, 0: null)
  regCtor,               \* history: outcome of the last constructor call
  lastChange,            \* history: the last ChangeAddress call, its arguments and outcome
  lastGet,               \* history: the last GetAddress call and what it returned
  lastWritten,           \* history: per region, the address of the last write that succeeded
  regCalls               \* history: constructor, ChangeAddress and GetAddress calls

tcpVars == <<start_flag, socket_close_flag, sockOpen, on_message_received,
             on_connection_closed, size_buffer, data_buffer, send_queue, ioq, rops,
             wops, wire, delivered, closedCalls, shutdowns, sendLog, enqueued,
             wrote, startCalls, closeCalls, nErr, nRaw>>

calls == <<startCalls, closeCalls, nErr, nRaw>>

shmVars == <<nameRegion, regions, pc, shared_memory, mapped_region, message_queue,
             receive_flag, receive_future, ctorResult, constructions, pushCalls,
             lastPush, pushPending, notified>>

regVars == <<regName, regMem, regPc, regObj, safe_address, regCtor, lastChange,
             lastGet, lastWritten, regCalls>>

vars == <<tcpVars, shmVars, regVars>>

\* The public calls and operating-system errors so far.
Calls == startCalls[1] + startCalls[2] + closeCalls[1] + closeCalls[2]
         + Len(sendLog[1]) + Len(sendLog[2]) + nErr

(***************************************************************************)
(* Pure helpers.                                                           *)
(***************************************************************************)
RECURSIVE Pow2(_)
Pow2(n) == IF n = 0 THEN 1 ELSE 2 * Pow2(n - 1)

ShiftRight(x, n) == x \div Pow2(n)

IsPrefix(s, t) == Len(s) <= Len(t) /\ SubSeq(t, 1, Len(s)) = s

Resize(buf, n) ==
  [i \in 1..n |-> IF i <= Len(buf) THEN buf[i] ELSE 0]

\* A handler object queued on the io_service.
Handler(h, ec, sb, d) == [h |-> h, ec |-> ec, size_buffer |-> sb, data |-> d]

(***************************************************************************)
(* EncodeData / the length decoding of ReadSize.                           *)
(***************************************************************************)
\* Mutant of ValidPayload: the upper limit is not checked.
ValidPayloadNoLimit(data) == Len(data) > 0

ValidPayload(data) == Len(data) > 0 /\ Len(data) <= MaxMessageSize

\* Mutant of EncodeData: the length is written low byte first.
EncodeDataLowByteFirst(data) ==
  [size_buffer |-> [i \in 1..DataSizeBytes |->
                      ShiftRight(Len(data), 8 * (i - 1)) % ByteMod],
   data |-> data]

EncodeData(data) ==
  [size_buffer |-> [i \in 1..DataSizeBytes |->
                      ShiftRight(Len(data), 8 * (DataSizeBytes - i)) % ByteMod],
   data |-> data]

\* Four bytes, each below ByteMod, shifted and or-ed into the 4-byte DataSize:
\* the value is below 2^32 and nothing wraps.
DecodeSize(sb) ==
  ((sb[1] * ByteMod + sb[2]) * ByteMod + sb[3]) * ByteMod + sb[4]

(***************************************************************************)
(* Initial state: two connected TcpConnections, freshly constructed.       *)
(***************************************************************************)
TcpInit ==
  /\ start_flag = [e \in Endpoints |-> FALSE]
  /\ socket_close_flag = [e \in Endpoints |-> FALSE]
  /\ sockOpen = [e \in Endpoints |-> TRUE]
  /\ on_message_received = [e \in Endpoints |-> 0]
  /\ on_connection_closed = [e \in Endpoints |-> 0]
  /\ size_buffer = [e \in Endpoints |-> <<0, 0, 0, 0>>]
  /\ data_buffer = [e \in Endpoints |-> <<>>]
  /\ send_queue = [e \in Endpoints |-> <<>>]
  /\ ioq = [e \in Endpoints |-> <<>>]
  /\ rops = [e \in Endpoints |-> <<>>]
  /\ wops = [e \in Endpoints |-> <<>>]
  /\ wire = [e \in Endpoints |-> <<>>]
  /\ delivered = [e \in Endpoints |-> <<>>]
  /\ closedCalls = [e \in Endpoints |-> <<>>]
  /\ shutdowns = [e \in Endpoints |-> 0]
  /\ sendLog = [e \in Endpoints |-> <<>>]
  /\ enqueued = [e \in Endpoints |-> <<>>]
  /\ wrote = [e \in Endpoints |-> <<>>]
  /\ startCalls = [e \in Endpoints |-> 0]
  /\ closeCalls = [e \in Endpoints |-> 0]
  /\ nErr = 0
  /\ nRaw = 0

(***************************************************************************)
(* Initiating functions.  Each returns the pair <<rops/wops, ioq>> of the  *)
(* endpoint after the asynchronous operation was started: on an open       *)
(* socket the operation becomes outstanding, on a closed one (and for a    *)
(* read into an empty buffer) its handler is queued at once.               *)
(***************************************************************************)
\* ReadSize: asio::async_read of the 4-byte length.
ReadSize(e, ops, q) ==
  IF sockOpen[e]
    THEN <<Append(ops, [kind |-> "size", need |-> DataSizeBytes, got |-> 0]), q>>
    ELSE <<ops, Append(q, Handler("OnSize", TRUE, <<>>, <<>>))>>

\* ReadData: asio::async_read of data_buffer, n bytes long.
ReadData(e, ops, q, n) ==
  IF ~sockOpen[e]
    THEN <<ops, Append(q, Handler("OnData", TRUE, <<>>, <<>>))>>
    ELSE IF n = 0
      THEN <<ops, Append(q, Handler("OnData", FALSE, <<>>, <<>>))>>
      ELSE <<Append(ops, [kind |-> "data", need |-> n, got |-> 0]), q>>

\* DoSend: asio::async_write of the two buffers (length, body) of the frame at
\* the front of the queue sq.
DoSend(e, ops, q, sq) ==
  IF sockOpen[e]
    THEN <<Append(ops, [bufs |-> <<Head(sq).size_buffer, Head(sq).data>>, off |-> 0]), q>>
    ELSE <<ops, Append(q, Handler("OnWrite", TRUE, <<>>, <<>>))>>

\* The handlers of the operations a closing socket cancels.
RECURSIVE AbortedReads(_)
AbortedReads(ops) ==
  IF ops = <<>> THEN <<>>
  ELSE <<Handler(IF Head(ops).kind = "size" THEN "OnSize" ELSE "OnData",
                 TRUE, <<>>, <<>>)>> \o AbortedReads(Tail(ops))

RECURSIVE AbortedWrites(_)
AbortedWrites(ops) ==
  IF ops = <<>> THEN <<>>
  ELSE <<Handler("OnWrite", TRUE, <<>>, <<>>)>> \o AbortedWrites(Tail(ops))

(***************************************************************************)
(* DoClose, run on the io_service with q the queue left after the running  *)
(* handler was taken off.                                                  *)
(***************************************************************************)
\* Mutant of DoClose: no std::call_once, the sequence runs on every call.
DoCloseEveryCall(e, q) ==
  /\ socket_close_flag' = [socket_close_flag EXCEPT ![e] = TRUE]
  /\ sockOpen' = [sockOpen EXCEPT ![e] = FALSE]
  /\ shutdowns' = [shutdowns EXCEPT ![e] = @ + 1]
  /\ rops' = [rops EXCEPT ![e] = <<>>]
  /\ wops' = [wops EXCEPT ![e] = <<>>]
  /\ ioq' = [ioq EXCEPT ![e] = q \o AbortedReads(rops[e]) \o AbortedWrites(wops[e])]
  /\ closedCalls' = [closedCalls EXCEPT ![e] =
                       IF on_connection_closed[e] # 0
                         THEN Append(@, on_connection_closed[e]) ELSE @]

DoClose(e, q) ==
  IF ~socket_close_flag[e]
    THEN /\ socket_close_flag' = [socket_close_flag EXCEPT ![e] = TRUE]
         /\ sockOpen' = [sockOpen EXCEPT ![e] = FALSE]
         /\ shutdowns' = [shutdowns EXCEPT ![e] = @ + 1]
         /\ rops' = [rops EXCEPT ![e] = <<>>]
         /\ wops' = [wops EXCEPT ![e] = <<>>]
         /\ ioq' = [ioq EXCEPT ![e] = q \o AbortedReads(rops[e]) \o AbortedWrites(wops[e])]
         /\ closedCalls' = [closedCalls EXCEPT ![e] =
                              IF on_connection_closed[e] # 0
                                THEN Append(@, on_connection_closed[e]) ELSE @]
    ELSE /\ ioq' = [ioq EXCEPT ![e] = q]
         /\ UNCHANGED <<socket_close_flag, sockOpen, shutdowns, rops, wops, closedCalls>>

(***************************************************************************)
(* Public calls.                                                           *)
(***************************************************************************)
\* Start(on_message_received, on_connection_closed); onLoop: the caller runs
\* on the io_service thread, so dispatch runs ReadSize at once.
\* Mutant of Start: no std::call_once, every call registers and dispatches.
StartEveryCall(e, cbm, cbc, onLoop) ==
  /\ Calls < MaxCalls
  /\ startCalls' = [startCalls EXCEPT ![e] = @ + 1]
  /\ start_flag' = [start_flag EXCEPT ![e] = TRUE]
  /\ on_message_received' = [on_message_received EXCEPT ![e] = cbm]
  /\ on_connection_closed' = [on_connection_closed EXCEPT ![e] = cbc]
  /\ IF onLoop
       THEN LET r == ReadSize(e, rops[e], ioq[e])
            IN /\ rops' = [rops EXCEPT ![e] = r[1]]
               /\ ioq' = [ioq EXCEPT ![e] = r[2]]
       ELSE /\ ioq' = [ioq EXCEPT ![e] =
                         Append(@, Handler("ReadSize", FALSE, <<>>, <<>>))]
            /\ UNCHANGED rops
  /\ UNCHANGED <<socket_close_flag, sockOpen, size_buffer, data_buffer, send_queue,
                 wops, wire, delivered, closedCalls, shutdowns, sendLog, enqueued,
                 wrote, closeCalls, nErr, nRaw>>
  /\ UNCHANGED <<shmVars, regVars>>

Start(e, cbm, cbc, onLoop) ==
  /\ Calls < MaxCalls
  /\ startCalls' = [startCalls EXCEPT ![e] = @ + 1]
  /\ IF ~start_flag[e]
       THEN /\ start_flag' = [start_flag EXCEPT ![e] = TRUE]
            /\ on_message_received' = [on_message_received EXCEPT ![e] = cbm]
            /\ on_connection_closed' = [on_connection_closed EXCEPT ![e] = cbc]
            /\ IF onLoop
                 THEN LET r == ReadSize(e, rops[e], ioq[e])
                      IN /\ rops' = [rops EXCEPT ![e] = r[1]]
                         /\ ioq' = [ioq EXCEPT ![e] = r[2]]
                 ELSE /\ ioq' = [ioq EXCEPT ![e] =
                                   Append(@, Handler("ReadSize", FALSE, <<>>, <<>>))]
                      /\ UNCHANGED rops
       ELSE UNCHANGED <<start_flag, on_message_received, on_connection_closed, rops, ioq>>
  /\ UNCHANGED <<socket_close_flag, sockOpen, size_buffer, data_buffer, send_queue,
                 wops, wire, delivered, closedCalls, shutdowns, sendLog, enqueued,
                 wrote, closeCalls, nErr, nRaw>>
  /\ UNCHANGED <<shmVars, regVars>>

\* Close(): posts DoClose.
Close(e) ==
  /\ Calls < MaxCalls
  /\ closeCalls' = [closeCalls EXCEPT ![e] = @ + 1]
  /\ ioq' = [ioq EXCEPT ![e] = Append(@, Handler("DoClose", FALSE, <<>>, <<>>))]
  /\ UNCHANGED <<start_flag, socket_close_flag, sockOpen, on_message_received,
                 on_connection_closed, size_buffer, data_buffer, send_queue, rops,
                 wops, wire, delivered, closedCalls, shutdowns, sendLog, enqueued,
                 wrote, startCalls, nErr, nRaw>>
  /\ UNCHANGED <<shmVars, regVars>>

\* Send(data): EncodeData throws on an empty or oversized payload, before
\* anything is posted; otherwise the enqueue callback is posted.
Send(e, data) ==
  /\ Calls < MaxCalls
  /\ IF ValidPayload(data)
       THEN /\ ioq' = [ioq EXCEPT ![e] =
                         Append(@, Handler("Enqueue", FALSE,
                                           EncodeData(data).size_buffer,
                                           EncodeData(data).data))]
            /\ sendLog' = [sendLog EXCEPT ![e] = Append(@, [data |-> data, threw |-> FALSE])]
       ELSE /\ sendLog' = [sendLog EXCEPT ![e] = Append(@, [data |-> data, threw |-> TRUE])]
            /\ UNCHANGED ioq
  /\ UNCHANGED <<start_flag, socket_close_flag, sockOpen, on_message_received,
                 on_connection_closed, size_buffer, data_buffer, send_queue, rops,
                 wops, wire, delivered, closedCalls, shutdowns, enqueued, wrote,
                 startCalls, closeCalls, nErr, nRaw>>
  /\ UNCHANGED <<shmVars, regVars>>

(***************************************************************************)
(* Handlers run by the io_service thread, one at a time, in FIFO order.    *)
(***************************************************************************)
Running(e, h) == ioq[e] # <<>> /\ Head(ioq[e]).h = h

\* The lambda Start dispatches: this_ptr->ReadSize().
RunReadSize(e) ==
  /\ Running(e, "ReadSize")
  /\ LET r == ReadSize(e, rops[e], Tail(ioq[e]))
     IN /\ rops' = [rops EXCEPT ![e] = r[1]]
        /\ ioq' = [ioq EXCEPT ![e] = r[2]]
  /\ UNCHANGED <<start_flag, socket_close_flag, sockOpen, on_message_received,
                 on_connection_closed, size_buffer, data_buffer, send_queue, wops,
                 wire, delivered, closedCalls, shutdowns, sendLog, enqueued, wrote,
                 calls>>
  /\ UNCHANGED <<shmVars, regVars>>

\* The lambda Close posts: this_ptr->DoClose().
RunDoClose(e) ==
  /\ Running(e, "DoClose")
  /\ DoClose(e, Tail(ioq[e]))
  /\ UNCHANGED <<start_flag, on_message_received, on_connection_closed, size_buffer,
                 data_buffer, send_queue, wire, delivered, sendLog, enqueued, wrote,
                 calls>>
  /\ UNCHANGED <<shmVars, regVars>>

\* Mutant of OnSizeRead: the limit is compared one too high.
OnSizeReadOffByOne(e) ==
  /\ Running(e, "OnSize")
  /\ LET ec == Head(ioq[e]).ec
         q == Tail(ioq[e])
         data_size == DecodeSize(size_buffer[e])
     IN IF ec
          THEN DoClose(e, q) /\ UNCHANGED data_buffer
          ELSE IF data_size > MaxMessageSize + 1
            THEN /\ data_buffer' = [data_buffer EXCEPT ![e] = <<>>]
                 /\ DoClose(e, q)
            ELSE LET r == ReadData(e, rops[e], q, data_size)
                 IN /\ data_buffer' = [data_buffer EXCEPT ![e] = Resize(@, data_size)]
                    /\ rops' = [rops EXCEPT ![e] = r[1]]
                    /\ ioq' = [ioq EXCEPT ![e] = r[2]]
                    /\ UNCHANGED <<socket_close_flag, sockOpen, shutdowns, wops,
                                   closedCalls>>
  /\ UNCHANGED <<start_flag, on_message_received, on_connection_closed, size_buffer,
                 send_queue, wire, delivered, sendLog, enqueued, wrote,
                 calls>>
  /\ UNCHANGED <<shmVars, regVars>>

\* The completion handler of ReadSize's async_read.
OnSizeRead(e) ==
  /\ Running(e, "OnSize")
  /\ LET ec == Head(ioq[e]).ec
         q == Tail(ioq[e])
         data_size == DecodeSize(size_buffer[e])
     IN IF ec
          THEN DoClose(e, q) /\ UNCHANGED data_buffer
          ELSE IF data_size > MaxMessageSize
            THEN /\ data_buffer' = [data_buffer EXCEPT ![e] = <<>>]
                 /\ DoClose(e, q)
            ELSE LET r == ReadData(e, rops[e], q, data_size)
                 IN /\ data_buffer' = [data_buffer EXCEPT ![e] = Resize(@, data_size)]
                    /\ rops' = [rops EXCEPT ![e] = r[1]]
                    /\ ioq' = [ioq EXCEPT ![e] = r[2]]
                    /\ UNCHANGED <<socket_close_flag, sockOpen, shutdowns, wops,
                                   closedCalls>>
  /\ UNCHANGED <<start_flag, on_message_received, on_connection_closed, size_buffer,
                 send_queue, wire, delivered, sendLog, enqueued, wrote, calls>>
  /\ UNCHANGED <<shmVars, regVars>>

\* Mutant of OnDataRead: the buffer is delivered on an error as well.
OnDataReadDeliverOnError(e) ==
  /\ Running(e, "OnData")
  /\ LET ec == Head(ioq[e]).ec
         q == Append(Tail(ioq[e]), Handler("Deliver", FALSE, <<>>, data_buffer[e]))
     IN IF ec
          THEN DoClose(e, q)
          ELSE LET r == ReadSize(e, rops[e], q)
               IN /\ rops' = [rops EXCEPT ![e] = r[1]]
                  /\ ioq' = [ioq EXCEPT ![e] = r[2]]
                  /\ UNCHANGED <<socket_close_flag, sockOpen, shutdowns, wops, closedCalls>>
  /\ UNCHANGED <<start_flag, on_message_received, on_connection_closed, size_buffer,
                 data_buffer, send_queue, wire, delivered, sendLog, enqueued, wrote,
                 calls>>
  /\ UNCHANGED <<shmVars, regVars>>

\* The completion handler of ReadData's async_read: posts the delivery of a
\* copy of data_buffer, then dispatches (runs at once) the next ReadSize.
OnDataRead(e) ==
  /\ Running(e, "OnData")
  /\ LET ec == Head(ioq[e]).ec
         q == Tail(ioq[e])
     IN IF ec
          THEN DoClose(e, q)
          ELSE LET r == ReadSize(e, rops[e],
                                 Append(q, Handler("Deliver", FALSE, <<>>, data_buffer[e])))
               IN /\ rops' = [rops EXCEPT ![e] = r[1]]
                  /\ ioq' = [ioq EXCEPT ![e] = r[2]]
                  /\ UNCHANGED <<socket_close_flag, sockOpen, shutdowns, wops, closedCalls>>
  /\ UNCHANGED <<start_flag, on_message_received, on_connection_closed, size_buffer,
                 data_buffer, send_queue, wire, delivered, sendLog, enqueued, wrote,
                 calls>>
  /\ UNCHANGED <<shmVars, regVars>>

\* The lambda ReadData posts: on_message_received_(std::move(data)).
DeliverMessage(e) ==
  /\ Running(e, "Deliver")
  /\ ioq' = [ioq EXCEPT ![e] = Tail(@)]
  /\ delivered' = [delivered EXCEPT ![e] =
                     Append(@, [cb |-> on_message_received[e],
                                data |-> Head(ioq[e]).data,
                                afterClosed |-> closedCalls[e] # <<>>])]
  /\ UNCHANGED <<start_flag, socket_close_flag, sockOpen, on_message_received,
                 on_connection_closed, size_buffer, data_buffer, send_queue, rops,
                 wops, wire, closedCalls, shutdowns, sendLog, enqueued, wrote, calls>>
  /\ UNCHANGED <<shmVars, regVars>>

\* Mutant of SendEnqueue: the message is put at the front of send_queue_.
SendEnqueueAtFront(e) ==
  /\ Running(e, "Enqueue")
  /\ LET message == [size_buffer |-> Head(ioq[e]).size_buffer,
                     data |-> Head(ioq[e]).data]
         currently_sending == send_queue[e] # <<>>
         sq == <<message>> \o send_queue[e]
         r == IF ~currently_sending
                THEN DoSend(e, wops[e], Tail(ioq[e]), sq)
                ELSE <<wops[e], Tail(ioq[e])>>
     IN /\ send_queue' = [send_queue EXCEPT ![e] = sq]
        /\ wops' = [wops EXCEPT ![e] = r[1]]
        /\ ioq' = [ioq EXCEPT ![e] = r[2]]
        /\ enqueued' = [enqueued EXCEPT ![e] = Append(@, message.data)]
  /\ UNCHANGED <<start_flag, socket_close_flag, sockOpen, on_message_received,
                 on_connection_closed, size_buffer, data_buffer, rops, wire,
                 delivered, closedCalls, shutdowns, sendLog, wrote, calls>>
  /\ UNCHANGED <<shmVars, regVars>>

\* Mutant of SendEnqueue: DoSend is called whether or not a send is under way.
SendEnqueueAlwaysSend(e) ==
  /\ Running(e, "Enqueue")
  /\ LET message == [size_buffer |-> Head(ioq[e]).size_buffer,
                     data |-> Head(ioq[e]).data]
         sq == Append(send_queue[e], message)
         r == DoSend(e, wops[e], Tail(ioq[e]), sq)
     IN /\ send_queue' = [send_queue EXCEPT ![e] = sq]
        /\ wops' = [wops EXCEPT ![e] = r[1]]
        /\ ioq' = [ioq EXCEPT ![e] = r[2]]
        /\ enqueued' = [enqueued EXCEPT ![e] = Append(@, message.data)]
  /\ UNCHANGED <<start_flag, socket_close_flag, sockOpen, on_message_received,
                 on_connection_closed, size_buffer, data_buffer, rops, wire,
                 delivered, closedCalls, shutdowns, sendLog, wrote, calls>>
  /\ UNCHANGED <<shmVars, regVars>>

\* The lambda Send posts: append to send_queue_, DoSend if it was empty.
SendEnqueue(e) ==
  /\ Running(e, "Enqueue")
  /\ LET message == [size_buffer |-> Head(ioq[e]).size_buffer,
                     data |-> Head(ioq[e]).data]
         currently_sending == send_queue[e] # <<>>
         sq == Append(send_queue[e], message)
         r == IF ~currently_sending
                THEN DoSend(e, wops[e], Tail(ioq[e]), sq)
                ELSE <<wops[e], Tail(ioq[e])>>
     IN /\ send_queue' = [send_queue EXCEPT ![e] = sq]
        /\ wops' = [wops EXCEPT ![e] = r[1]]
        /\ ioq' = [ioq EXCEPT ![e] = r[2]]
        /\ enqueued' = [enqueued EXCEPT ![e] = Append(@, message.data)]
  /\ UNCHANGED <<start_flag, socket_close_flag, sockOpen, on_message_received,
                 on_connection_closed, size_buffer, data_buffer, rops, wire,
                 delivered, closedCalls, shutdowns, sendLog, wrote, calls>>
  /\ UNCHANGED <<shmVars, regVars>>

\* The completion handler of DoSend's async_write.
OnWritten(e) ==
  /\ Running(e, "OnWrite")
  /\ LET ec == Head(ioq[e]).ec
         q == Tail(ioq[e])
     IN IF ec
          THEN DoClose(e, q) /\ UNCHANGED send_queue
          ELSE LET sq == IF send_queue[e] = <<>> THEN <<>> ELSE Tail(send_queue[e])
                   r == IF sq # <<>> THEN DoSend(e, wops[e], q, sq) ELSE <<wops[e], q>>
               IN /\ send_queue' = [send_queue EXCEPT ![e] = sq]
                  /\ wops' = [wops EXCEPT ![e] = r[1]]
                  /\ ioq' = [ioq EXCEPT ![e] = r[2]]
                  /\ UNCHANGED <<socket_close_flag, sockOpen, shutdowns, rops, closedCalls>>
  /\ UNCHANGED <<start_flag, on_message_received, on_connection_closed, size_buffer,
                 data_buffer, wire, delivered, sendLog, enqueued, wrote, calls>>
  /\ UNCHANGED <<shmVars, regVars>>

(***************************************************************************)
(* The socket: progress of the outstanding asynchronous operations.        *)
(***************************************************************************)
\* The oldest outstanding read takes what the wire holds, up to what its
\* buffer still needs; once the buffer is full its handler is queued.
Min(a, b) == IF a < b THEN a ELSE b

ReadSome(e) ==
  /\ rops[e] # <<>>
  /\ sockOpen[e]
  /\ wire[e] # <<>>
  /\ LET op == Head(rops[e])
         n == Min(Len(wire[e]), op.need - op.got)
         done == op.got + n = op.need
         Filled(buf) == [i \in 1..Len(buf) |->
                           IF i > op.got /\ i <= op.got + n THEN wire[e][i - op.got]
                                                            ELSE buf[i]]
     IN /\ wire' = [wire EXCEPT ![e] = SubSeq(@, n + 1, Len(@))]
        /\ IF op.kind = "size"
             THEN /\ size_buffer' = [size_buffer EXCEPT ![e] = Filled(@)]
                  /\ UNCHANGED data_buffer
             ELSE /\ data_buffer' = [data_buffer EXCEPT ![e] = Filled(@)]
                  /\ UNCHANGED size_buffer
        /\ IF done
             THEN /\ rops' = [rops EXCEPT ![e] = Tail(@)]
                  /\ ioq' = [ioq EXCEPT ![e] =
                               Append(@, Handler(IF op.kind = "size" THEN "OnSize"
                                                                      ELSE "OnData",
                                                 FALSE, <<>>, <<>>))]
             ELSE /\ rops' = [rops EXCEPT ![e] = <<[op EXCEPT !.got = @ + n]>> \o Tail(@)]
                  /\ UNCHANGED ioq
  /\ UNCHANGED <<start_flag, socket_close_flag, sockOpen, on_message_received,
                 on_connection_closed, send_queue, wops, delivered, closedCalls,
                 shutdowns, sendLog, enqueued, wrote, calls>>
  /\ UNCHANGED <<shmVars, regVars>>

\* The oldest outstanding write puts the next of its two buffers (the length,
\* then the body) on the wire (the bytes are lost when the peer's socket is
\* closed); after the second its handler is queued.
WriteSome(e) ==
  /\ wops[e] # <<>>
  /\ sockOpen[e]
  /\ LET op == Head(wops[e])
         b == op.bufs[op.off + 1]
         done == op.off + 1 = Len(op.bufs)
     IN /\ wire' = [wire EXCEPT ![Peer(e)] = IF sockOpen[Peer(e)] THEN @ \o b ELSE @]
        /\ wrote' = [wrote EXCEPT ![e] = @ \o b]
        /\ IF done
             THEN /\ wops' = [wops EXCEPT ![e] = Tail(@)]
                  /\ ioq' = [ioq EXCEPT ![e] = Append(@, Handler("OnWrite", FALSE, <<>>, <<>>))]
             ELSE /\ wops' = [wops EXCEPT ![e] = <<[op EXCEPT !.off = @ + 1]>> \o Tail(@)]
                  /\ UNCHANGED ioq
  /\ UNCHANGED <<start_flag, socket_close_flag, sockOpen, on_message_received,
                 on_connection_closed, size_buffer, data_buffer, send_queue, rops,
                 delivered, closedCalls, shutdowns, sendLog, enqueued, calls>>
  /\ UNCHANGED <<shmVars, regVars>>

\* The peer's socket is closed and everything it wrote was read: the oldest
\* outstanding read fails with end-of-file.
ReadEof(e) ==
  /\ rops[e] # <<>>
  /\ sockOpen[e]
  /\ ~sockOpen[Peer(e)]
  /\ wire[e] = <<>>
  /\ rops' = [rops EXCEPT ![e] = Tail(@)]
  /\ ioq' = [ioq EXCEPT ![e] = Append(@, AbortedReads(<<Head(rops[e])>>)[1])]
  /\ UNCHANGED <<start_flag, socket_close_flag, sockOpen, on_message_received,
                 on_connection_closed, size_buffer, data_buffer, send_queue, wops,
                 wire, delivered, closedCalls, shutdowns, sendLog, enqueued, wrote,
                 calls>>
  /\ UNCHANGED <<shmVars, regVars>>

\* An I/O error of the operating system fails the oldest outstanding read.
ReadError(e) ==
  /\ Calls < MaxCalls
  /\ rops[e] # <<>>
  /\ sockOpen[e]
  /\ nErr' = nErr + 1
  /\ rops' = [rops EXCEPT ![e] = Tail(@)]
  /\ ioq' = [ioq EXCEPT ![e] = Append(@, AbortedReads(<<Head(rops[e])>>)[1])]
  /\ UNCHANGED <<start_flag, socket_close_flag, sockOpen, on_message_received,
                 on_connection_closed, size_buffer, data_buffer, send_queue, wops,
                 wire, delivered, closedCalls, shutdowns, sendLog, enqueued, wrote,
                 startCalls, closeCalls, nRaw>>
  /\ UNCHANGED <<shmVars, regVars>>

\* An I/O error of the operating system fails the oldest outstanding write.
WriteError(e) ==
  /\ Calls < MaxCalls
  /\ wops[e] # <<>>
  /\ sockOpen[e]
  /\ nErr' = nErr + 1
  /\ wops' = [wops EXCEPT ![e] = Tail(@)]
  /\ ioq' = [ioq EXCEPT ![e] = Append(@, Handler("OnWrite", TRUE, <<>>, <<>>))]
  /\ UNCHANGED <<start_flag, socket_close_flag, sockOpen, on_message_received,
                 on_connection_closed, size_buffer, data_buffer, send_queue, rops,
                 wire, delivered, closedCalls, shutdowns, sendLog, enqueued, wrote,
                 startCalls, closeCalls, nRaw>>
  /\ UNCHANGED <<shmVars, regVars>>

(***************************************************************************)
(* SharedMemoryCommunication<FobType, CreationTag>.  Processes 1 and 2     *)
(* instantiate it with SharedMemoryCreateOnly, process 3 with              *)
(* SharedMemoryOpenOnly, all with the same name.  queue_operations.h       *)
(* (DecideDeletion, DecideTruncate, CreateQueue, PushMessageToQueue,       *)
(* RunRecevingThread, IpcBidirectionalQueue) is not among the sources; the *)
(* operators named after them follow the documented behaviour.             *)
(***************************************************************************)
Creators == {1, 2}
Openers == {3}
Procs == Creators \cup Openers
CreationTag(p) == IF p \in Creators THEN "create_only" ELSE "open_only"

kMessageSize == 2
QueueCapacity == 1
MessageSizes == {1, kMessageSize, kMessageSize + 1}

RegionIds == 1..(2 * MaxConstructions)
\* The region the n-th construction of creator p creates.
NewRegion(p, n) == 2 * (n - 1) + p

NoRegion == [sized |-> FALSE, built |-> FALSE, toParent |-> <<>>, toChild |-> <<>>]

DecideDeletion(tag, name) == IF tag = "create_only" THEN 0 ELSE name

DecideTruncate(tag, region) ==
  IF tag = "create_only" THEN [region EXCEPT !.sized = TRUE] ELSE region

CreateQueue(tag, region) ==
  IF tag = "create_only"
    THEN [region EXCEPT !.built = TRUE, !.toParent = <<>>, !.toChild = <<>>]
    ELSE region

\* The queue of the region a process with this tag pushes to / receives from.
Outbound(tag, region) == IF tag = "create_only" THEN region.toChild ELSE region.toParent
Inbound(tag, region) == IF tag = "create_only" THEN region.toParent ELSE region.toChild

HasSpace(tag, region) == Len(Outbound(tag, region)) < QueueCapacity

PushMessageToQueue(tag, region, m) ==
  IF tag = "create_only" THEN [region EXCEPT !.toChild = Append(@, m)]
                         ELSE [region EXCEPT !.toParent = Append(@, m)]

PopMessageFromQueue(tag, region) ==
  IF tag = "create_only" THEN [region EXCEPT !.toParent = Tail(@)]
                         ELSE [region EXCEPT !.toChild = Tail(@)]

Pushes == pushCalls[1] + pushCalls[2] + pushCalls[3]
Constructions == constructions[1] + constructions[2] + constructions[3]

ShmInit ==
  /\ nameRegion = 0
  /\ regions = [r \in RegionIds |-> NoRegion]
  /\ pc = [p \in Procs |-> "idle"]
  /\ shared_memory = [p \in Procs |-> 0]
  /\ mapped_region = [p \in Procs |-> 0]
  /\ message_queue = [p \in Procs |-> 0]
  /\ receive_flag = [p \in Procs |-> FALSE]
  /\ receive_future = [p \in Procs |-> "none"]
  /\ ctorResult = [p \in Procs |-> "none"]
  /\ constructions = [p \in Procs |-> 0]
  /\ pushCalls = [p \in Procs |-> 0]
  /\ lastPush = [p |-> 0, size |-> 0, result |-> "none"]
  /\ pushPending = [p \in Procs |-> <<>>]
  /\ notified = [p \in Procs |-> <<>>]

\* Constructor, member initialisers and DecideDeletion<CreationTag>.
CtorDecideDeletion(p) ==
  /\ pc[p] = "idle"
  /\ Constructions < MaxConstructions
  /\ constructions' = [constructions EXCEPT ![p] = @ + 1]
  /\ ctorResult' = [ctorResult EXCEPT ![p] = "none"]
  /\ receive_flag' = [receive_flag EXCEPT ![p] = TRUE]
  /\ nameRegion' = DecideDeletion(CreationTag(p), nameRegion)
  /\ pc' = [pc EXCEPT ![p] = "ctor_open"]
  /\ UNCHANGED <<regions, shared_memory, mapped_region, message_queue, receive_future,
                 pushCalls, lastPush, pushPending, notified>>
  /\ UNCHANGED <<tcpVars, regVars>>

\* Constructor: new shared_memory_object(CreationTag(), name, read_write);
\* create_only throws when the name exists, open_only when it does not.
CtorSharedMemoryObject(p) ==
  /\ pc[p] = "ctor_open"
  /\ IF CreationTag(p) = "create_only"
       THEN IF nameRegion # 0
              THEN /\ ctorResult' = [ctorResult EXCEPT ![p] = "already_exists"]
                   /\ pc' = [pc EXCEPT ![p] = "idle"]
                   /\ UNCHANGED <<nameRegion, regions, shared_memory>>
              ELSE LET r == NewRegion(p, constructions[p])
                   IN /\ nameRegion' = r
                      /\ regions' = [regions EXCEPT ![r] = NoRegion]
                      /\ shared_memory' = [shared_memory EXCEPT ![p] = r]
                      /\ pc' = [pc EXCEPT ![p] = "ctor_truncate"]
                      /\ UNCHANGED ctorResult
       ELSE IF nameRegion = 0
              THEN /\ ctorResult' = [ctorResult EXCEPT ![p] = "not_found"]
                   /\ pc' = [pc EXCEPT ![p] = "idle"]
                   /\ UNCHANGED <<nameRegion, regions, shared_memory>>
              ELSE /\ shared_memory' = [shared_memory EXCEPT ![p] = nameRegion]
                   /\ pc' = [pc EXCEPT ![p] = "ctor_truncate"]
                   /\ UNCHANGED <<nameRegion, regions, ctorResult>>
  /\ UNCHANGED <<mapped_region, message_queue, receive_flag, receive_future,
                 constructions, pushCalls, lastPush, pushPending, notified>>
  /\ UNCHANGED <<tcpVars, regVars>>

\* Constructor: DecideTruncate<CreationTag>.
CtorDecideTruncate(p) ==
  /\ pc[p] = "ctor_truncate"
  /\ regions' = [regions EXCEPT ![shared_memory[p]] = DecideTruncate(CreationTag(p), @)]
  /\ pc' = [pc EXCEPT ![p] = "ctor_map"]
  /\ UNCHANGED <<nameRegion, shared_memory, mapped_region, message_queue, receive_flag,
                 receive_future, ctorResult, constructions, pushCalls, lastPush,
                 pushPending, notified>>
  /\ UNCHANGED <<tcpVars, regVars>>

\* Constructor: new mapped_region(*shared_memory_, read_write); mapping an
\* object whose size was not set yet throws.
CtorMappedRegion(p) ==
  /\ pc[p] = "ctor_map"
  /\ IF regions[shared_memory[p]].sized
       THEN /\ mapped_region' = [mapped_region EXCEPT ![p] = shared_memory[p]]
            /\ pc' = [pc EXCEPT ![p] = "ctor_queue"]
            /\ UNCHANGED <<shared_memory, ctorResult>>
       ELSE /\ shared_memory' = [shared_memory EXCEPT ![p] = 0]
            /\ ctorResult' = [ctorResult EXCEPT ![p] = "map_failed"]
            /\ pc' = [pc EXCEPT ![p] = "idle"]
            /\ UNCHANGED mapped_region
  /\ UNCHANGED <<nameRegion, regions, message_queue, receive_flag, receive_future,
                 constructions, pushCalls, lastPush, pushPending, notified>>
  /\ UNCHANGED <<tcpVars, regVars>>

\* Constructor: CreateQueue<CreationTag>(message_queue_, *mapped_region_).
CtorCreateQueue(p) ==
  /\ pc[p] = "ctor_queue"
  /\ regions' = [regions EXCEPT ![mapped_region[p]] = CreateQueue(CreationTag(p), @)]
  /\ message_queue' = [message_queue EXCEPT ![p] = mapped_region[p]]
  /\ pc' = [pc EXCEPT ![p] = "ctor_thread"]
  /\ UNCHANGED <<nameRegion, shared_memory, mapped_region, receive_flag, receive_future,
                 ctorResult, constructions, pushCalls, lastPush, pushPending, notified>>
  /\ UNCHANGED <<tcpVars, regVars>>

\* Constructor's last statement: the receiving thread is started.
StartCheckingReceivingQueue(p) ==
  /\ pc[p] = "ctor_thread"
  /\ receive_future' = [receive_future EXCEPT ![p] = "running"]
  /\ ctorResult' = [ctorResult EXCEPT ![p] = "ok"]
  /\ pc' = [pc EXCEPT ![p] = "live"]
  /\ UNCHANGED <<nameRegion, regions, shared_memory, mapped_region, message_queue,
                 receive_flag, constructions, pushCalls, lastPush, pushPending, notified>>
  /\ UNCHANGED <<tcpVars, regVars>>

\* Mutant of PushMessage: the size is not checked.
PushMessageUnchecked(p, size) ==
  /\ pc[p] = "live"
  /\ pushPending[p] = <<>>
  /\ Pushes < MaxPushes
  /\ pushCalls' = [pushCalls EXCEPT ![p] = @ + 1]
  /\ IF HasSpace(CreationTag(p), regions[message_queue[p]])
       THEN /\ regions' = [regions EXCEPT ![message_queue[p]] =
                             PushMessageToQueue(CreationTag(p), @, size)]
            /\ lastPush' = [p |-> p, size |-> size, result |-> "true"]
            /\ UNCHANGED pushPending
       ELSE /\ pushPending' = [pushPending EXCEPT ![p] = <<size>>]
            /\ lastPush' = [p |-> p, size |-> size, result |-> "blocked"]
            /\ UNCHANGED regions
  /\ UNCHANGED <<nameRegion, pc, shared_memory, mapped_region, message_queue,
                 receive_flag, receive_future, ctorResult, constructions, notified>>
  /\ UNCHANGED <<tcpVars, regVars>>

\* PushMessage(message): false for a message longer than kMessageSize, else
\* PushMessageToQueue<CreationTag>().Push, which waits while the queue is full.
PushMessage(p, size) ==
  /\ pc[p] = "live"
  /\ pushPending[p] = <<>>
  /\ Pushes < MaxPushes
  /\ pushCalls' = [pushCalls EXCEPT ![p] = @ + 1]
  /\ IF size > kMessageSize
       THEN /\ lastPush' = [p |-> p, size |-> size, result |-> "false"]
            /\ UNCHANGED <<regions, pushPending>>
       ELSE IF HasSpace(CreationTag(p), regions[message_queue[p]])
         THEN /\ regions' = [regions EXCEPT ![message_queue[p]] =
                               PushMessageToQueue(CreationTag(p), @, size)]
              /\ lastPush' = [p |-> p, size |-> size, result |-> "true"]
              /\ UNCHANGED pushPending
         ELSE /\ pushPending' = [pushPending EXCEPT ![p] = <<size>>]
              /\ lastPush' = [p |-> p, size |-> size, result |-> "blocked"]
              /\ UNCHANGED regions
  /\ UNCHANGED <<nameRegion, pc, shared_memory, mapped_region, message_queue,
                 receive_flag, receive_future, ctorResult, constructions, notified>>
  /\ UNCHANGED <<tcpVars, regVars>>

\* A PushMessage that waited finds room in the queue and returns true.
PushUnblocked(p) ==
  /\ pushPending[p] # <<>>
  /\ HasSpace(CreationTag(p), regions[message_queue[p]])
  /\ regions' = [regions EXCEPT ![message_queue[p]] =
                   PushMessageToQueue(CreationTag(p), @, pushPending[p][1])]
  /\ lastPush' = [p |-> p, size |-> pushPending[p][1], result |-> "true"]
  /\ pushPending' = [pushPending EXCEPT ![p] = <<>>]
  /\ UNCHANGED <<nameRegion, pc, shared_memory, mapped_region, message_queue,
                 receive_flag, receive_future, ctorResult, constructions, pushCalls,
                 notified>>
  /\ UNCHANGED <<tcpVars, regVars>>

\* The receiving thread pops an inbound message and calls message_notifier_.
ReceiveMessage(p) ==
  /\ receive_future[p] = "running"
  /\ receive_flag[p]
  /\ Inbound(CreationTag(p), regions[message_queue[p]]) # <<>>
  /\ notified' = [notified EXCEPT ![p] =
                    Append(@, Head(Inbound(CreationTag(p), regions[message_queue[p]])))]
  /\ regions' = [regions EXCEPT ![message_queue[p]] =
                   PopMessageFromQueue(CreationTag(p), @)]
  /\ UNCHANGED <<nameRegion, pc, shared_memory, mapped_region, message_queue,
                 receive_flag, receive_future, ctorResult, constructions, pushCalls,
                 lastPush, pushPending>>
  /\ UNCHANGED <<tcpVars, regVars>>

\* The receiving thread observes the cleared receive_flag_ and returns.
ReceiveThreadExit(p) ==
  /\ receive_future[p] = "running"
  /\ ~receive_flag[p]
  /\ receive_future' = [receive_future EXCEPT ![p] = "exited"]
  /\ UNCHANGED <<nameRegion, regions, pc, shared_memory, mapped_region, message_queue,
                 receive_flag, ctorResult, constructions, pushCalls, lastPush,
                 pushPending, notified>>
  /\ UNCHANGED <<tcpVars, regVars>>

\* Mutant of DtorDecideDeletion: the name is removed whatever the CreationTag.
DtorRemoveAlways(p) ==
  /\ pc[p] = "live"
  /\ pushPending[p] = <<>>
  /\ nameRegion' = 0
  /\ pc' = [pc EXCEPT ![p] = "dtor_flag"]
  /\ UNCHANGED <<regions, shared_memory, mapped_region, message_queue, receive_flag,
                 receive_future, ctorResult, constructions, pushCalls, lastPush,
                 pushPending, notified>>
  /\ UNCHANGED <<tcpVars, regVars>>

\* Destructor: DecideDeletion<CreationTag>.
DtorDecideDeletion(p) ==
  /\ pc[p] = "live"
  /\ pushPending[p] = <<>>
  /\ nameRegion' = DecideDeletion(CreationTag(p), nameRegion)
  /\ pc' = [pc EXCEPT ![p] = "dtor_flag"]
  /\ UNCHANGED <<regions, shared_memory, mapped_region, message_queue, receive_flag,
                 receive_future, ctorResult, constructions, pushCalls, lastPush,
                 pushPending, notified>>
  /\ UNCHANGED <<tcpVars, regVars>>

\* Mutant of DtorStoreFlag: receive_flag_ is left set.
DtorKeepFlag(p) ==
  /\ pc[p] = "dtor_flag"
  /\ pc' = [pc EXCEPT ![p] = "dtor_join"]
  /\ UNCHANGED <<nameRegion, regions, shared_memory, mapped_region, message_queue,
                 receive_flag, receive_future, ctorResult, constructions, pushCalls,
                 lastPush, pushPending, notified>>
  /\ UNCHANGED <<tcpVars, regVars>>

\* Destructor: receive_flag_.store(false).
DtorStoreFlag(p) ==
  /\ pc[p] = "dtor_flag"
  /\ receive_flag' = [receive_flag EXCEPT ![p] = FALSE]
  /\ pc' = [pc EXCEPT ![p] = "dtor_join"]
  /\ UNCHANGED <<nameRegion, regions, shared_memory, mapped_region, message_queue,
                 receive_future, ctorResult, constructions, pushCalls, lastPush,
                 pushPending, notified>>
  /\ UNCHANGED <<tcpVars, regVars>>

\* Mutant of DtorJoin: the members are destroyed without waiting for the thread.
DtorNoJoin(p) ==
  /\ pc[p] = "dtor_join"
  /\ receive_future' = [receive_future EXCEPT ![p] = IF @ = "exited" THEN "none" ELSE @]
  /\ message_queue' = [message_queue EXCEPT ![p] = 0]
  /\ mapped_region' = [mapped_region EXCEPT ![p] = 0]
  /\ shared_memory' = [shared_memory EXCEPT ![p] = 0]
  /\ pc' = [pc EXCEPT ![p] = "idle"]
  /\ UNCHANGED <<nameRegion, regions, receive_flag, ctorResult, constructions,
                 pushCalls, lastPush, pushPending, notified>>
  /\ UNCHANGED <<tcpVars, regVars>>

\* Destructor: receive_future_.get() returns once the thread has returned;
\* then the members are destroyed: the region is unmapped, the object closed.
DtorJoin(p) ==
  /\ pc[p] = "dtor_join"
  /\ receive_future[p] = "exited"
  /\ receive_future' = [receive_future EXCEPT ![p] = "none"]
  /\ message_queue' = [message_queue EXCEPT ![p] = 0]
  /\ mapped_region' = [mapped_region EXCEPT ![p] = 0]
  /\ shared_memory' = [shared_memory EXCEPT ![p] = 0]
  /\ pc' = [pc EXCEPT ![p] = "idle"]
  /\ UNCHANGED <<nameRegion, regions, receive_flag, ctorResult, constructions,
                 pushCalls, lastPush, pushPending, notified>>
  /\ UNCHANGED <<tcpVars, regVars>>

NextShm ==
  \/ \E p \in Procs : CtorDecideDeletion(p)
  \/ \E p \in Procs : CtorSharedMemoryObject(p)
  \/ \E p \in Procs : CtorDecideTruncate(p)
  \/ \E p \in Procs : CtorMappedRegion(p)
  \/ \E p \in Procs : CtorCreateQueue(p)
  \/ \E p \in Procs : StartCheckingReceivingQueue(p)
  \/ \E p \in Procs, size \in MessageSizes : PushMessage(p, size)
  \/ \E p \in Procs : PushUnblocked(p)
  \/ \E p \in Procs : ReceiveMessage(p)
  \/ \E p \in Procs : ReceiveThreadExit(p)
  \/ \E p \in Procs : DtorDecideDeletion(p)
  \/ \E p \in Procs : DtorStoreFlag(p)
  \/ \E p \in Procs : DtorJoin(p)

(***************************************************************************)
(* SafeReadOnlySharedMemory (the writer of the address register) and       *)
(* LifeStuffManagerAddressGetter (its reader), on the shared-memory name   *)
(* "lifestuff_manager".  Processes 1 and 2 construct writers, each with a  *)
(* passport::Maid of its own; process 3 constructs readers.                *)
(* detail::SafeAddress is declared in queue_operations.h, not among the    *)
(* sources: {mutex, char address[], char signature[]}, the sizes being     *)
(* those the constructor asserts, scaled down.                             *)
(***************************************************************************)
RegWriters == {1, 2}
RegReaders == {3}
RegProcs == RegWriters \cup RegReaders

AddressBytes == 2
SignatureBytes == 1

\* maid.name().data of the writers' identities, and the addresses passed to
\* ChangeAddress: full-length strings, one of them holding a zero byte.
Addresses == {<<1, 1>>, <<2, 1>>, <<1, 2>>, <<2, 0>>}
Signatures == {<<0>>, <<1>>, <<2>>}
MaidName(w) == IF w = 1 THEN <<1, 1>> ELSE <<2, 0>>

\* asymm::Sign(PlainText(address), private key of w) and asymm::CheckSignature
\* with the public key of w.
Sign(address, w) == <<(address[1] + address[2] + w) % 3>>
CheckSignature(address, signature, w) == signature = Sign(address, w)

RegRegionIds == 1..MaxRegCalls

\* A shared-memory object as create_only leaves it: size zero; its pages read
\* as zero once it is sized.
FreshSafeAddress ==
  [sized |-> FALSE, built |-> FALSE,
   address |-> [i \in 1..AddressBytes |-> 0],
   signature |-> [i \in 1..SignatureBytes |-> 0]]

\* The chars from safe_address_->address onwards: the array, the signature
\* array that follows it, and the zero fill of the page.
CharsFromAddress(m) == m.address \o m.signature \o <<0>>

\* std::string(const char*): the chars up to the first zero.
RECURSIVE CString(_)
CString(chars) ==
  IF chars = <<>> \/ Head(chars) = 0 THEN <<>>
  ELSE <<Head(chars)>> \o CString(Tail(chars))

\* Identity(std::string): a string of exactly the identity's length, or the
\* constructor throws.
Identity(s) ==
  IF Len(s) = AddressBytes THEN [threw |-> FALSE, value |-> s]
                           ELSE [threw |-> TRUE, value |-> <<>>]

\* Identity(safe_address_->address): the char array decays to a C string.
StoredIdentity(m) == Identity(CString(CharsFromAddress(m)))

RegInit ==
  /\ regName = 0
  /\ regMem = [r \in RegRegionIds |-> FreshSafeAddress]
  /\ regPc = [p \in RegProcs |-> "none"]
  /\ regObj = [p \in RegProcs |-> 0]
  /\ safe_address = [p \in RegProcs |-> 0]
  /\ regCtor = [p \in RegProcs |-> "none"]
  /\ lastChange = [n |-> 0, w |-> 0, address |-> <<>>, signature |-> <<>>,
                   result |-> "none"]
  /\ lastGet = [n |-> 0, r |-> 0, region |-> 0, defined |-> TRUE, threw |-> FALSE,
                value |-> <<>>]
  /\ lastWritten = [r \in RegRegionIds |-> <<>>]
  /\ regCalls = 0

\* SafeReadOnlySharedMemory: shared_memory_(create_only, ...) accepts an existing
\* name as well.
WriterCtorOpenOrCreate(w) ==
  /\ regPc[w] = "none"
  /\ regCalls < MaxRegCalls
  /\ regCalls' = regCalls + 1
  /\ IF regName # 0
       THEN /\ regObj' = [regObj EXCEPT ![w] = regName]
            /\ UNCHANGED <<regName, regMem>>
       ELSE /\ regName' = regCalls'
            /\ regMem' = [regMem EXCEPT ![regCalls'] = FreshSafeAddress]
            /\ regObj' = [regObj EXCEPT ![w] = regCalls']
  /\ regPc' = [regPc EXCEPT ![w] = "ctor_truncate"]
  /\ regCtor' = [regCtor EXCEPT ![w] = "none"]
  /\ UNCHANGED <<safe_address, lastChange, lastGet, lastWritten>>
  /\ UNCHANGED <<tcpVars, shmVars>>

\* SafeReadOnlySharedMemory constructor: shared_memory_(create_only, ...) throws
\* when the name exists; no member is constructed and no destructor runs.
WriterCtorCreate(w) ==
  /\ regPc[w] = "none"
  /\ regCalls < MaxRegCalls
  /\ regCalls' = regCalls + 1
  /\ IF regName # 0
       THEN /\ regCtor' = [regCtor EXCEPT ![w] = "already_exists"]
            /\ UNCHANGED <<regName, regMem, regObj, regPc>>
       ELSE /\ regName' = regCalls'
            /\ regMem' = [regMem EXCEPT ![regCalls'] = FreshSafeAddress]
            /\ regObj' = [regObj EXCEPT ![w] = regCalls']
            /\ regPc' = [regPc EXCEPT ![w] = "ctor_truncate"]
            /\ regCtor' = [regCtor EXCEPT ![w] = "none"]
  /\ UNCHANGED <<safe_address, lastChange, lastGet, lastWritten>>
  /\ UNCHANGED <<tcpVars, shmVars>>

\* Constructor: shared_memory_.truncate(sizeof(detail::SafeAddress)).
WriterCtorTruncate(w) ==
  /\ regPc[w] = "ctor_truncate"
  /\ regMem' = [regMem EXCEPT ![regObj[w]].sized = TRUE]
  /\ regPc' = [regPc EXCEPT ![w] = "ctor_map"]
  /\ UNCHANGED <<regName, regObj, safe_address, regCtor, lastChange, lastGet,
                 lastWritten, regCalls>>
  /\ UNCHANGED <<tcpVars, shmVars>>

\* Constructor: new mapped_region, placement new of the SafeAddress.
WriterCtorMap(w) ==
  /\ regPc[w] = "ctor_map"
  /\ safe_address' = [safe_address EXCEPT ![w] = regObj[w]]
  /\ regMem' = [regMem EXCEPT ![regObj[w]].built = TRUE]
  /\ regPc' = [regPc EXCEPT ![w] = "ctor_address"]
  /\ UNCHANGED <<regName, regObj, regCtor, lastChange, lastGet, lastWritten, regCalls>>
  /\ UNCHANGED <<tcpVars, shmVars>>

\* Constructor: memcpy of maid.name() into safe_address_->address.
WriterCtorAddress(w) ==
  /\ regPc[w] = "ctor_address"
  /\ regMem' = [regMem EXCEPT ![safe_address[w]].address = MaidName(w)]
  /\ lastWritten' = [lastWritten EXCEPT ![safe_address[w]] = MaidName(w)]
  /\ regPc' = [regPc EXCEPT ![w] = "ctor_signature"]
  /\ UNCHANGED <<regName, regObj, safe_address, regCtor, lastChange, lastGet, regCalls>>
  /\ UNCHANGED <<tcpVars, shmVars>>

\* Constructor: memcpy of the initial signature into safe_address_->signature.
WriterCtorSignature(w) ==
  /\ regPc[w] = "ctor_signature"
  /\ regMem' = [regMem EXCEPT ![safe_address[w]].signature = Sign(MaidName(w), w)]
  /\ regPc' = [regPc EXCEPT ![w] = "live"]
  /\ regCtor' = [regCtor EXCEPT ![w] = "ok"]
  /\ UNCHANGED <<regName, regObj, safe_address, lastChange, lastGet, lastWritten,
                 regCalls>>
  /\ UNCHANGED <<tcpVars, shmVars>>

\* Mutant of ChangeAddress: the new address and signature are copied in before
\* the signature is checked.
ChangeAddressWriteFirst(w, new_address, new_signature) ==
  /\ regPc[w] = "live"
  /\ regCalls < MaxRegCalls
  /\ regCalls' = regCalls + 1
  /\ LET m == regMem[safe_address[w]]
         current_address == StoredIdentity(m)
         Result(res) == [n |-> regCalls', w |-> w, address |-> new_address,
                         signature |-> new_signature, result |-> res]
     IN IF current_address.threw
          THEN /\ lastChange' = Result("invalid_string_size")
               /\ UNCHANGED <<regMem, lastWritten>>
          ELSE IF current_address.value = new_address
            THEN /\ lastChange' = Result("returned")
                 /\ UNCHANGED <<regMem, lastWritten>>
            ELSE /\ regMem' = [regMem EXCEPT ![safe_address[w]].address = new_address,
                                             ![safe_address[w]].signature = new_signature]
                 /\ IF CheckSignature(new_address, new_signature, w)
                      THEN /\ lastWritten' = [lastWritten EXCEPT
                                                ![safe_address[w]] = new_address]
                           /\ lastChange' = Result("changed")
                      ELSE /\ lastChange' = Result("invalid_signature")
                           /\ UNCHANGED lastWritten
  /\ UNCHANGED <<regName, regPc, regObj, safe_address, regCtor, lastGet>>
  /\ UNCHANGED <<tcpVars, shmVars>>

\* ChangeAddress(new_address, new_signature), under the lock of the mutex.
ChangeAddress(w, new_address, new_signature) ==
  /\ regPc[w] = "live"
  /\ regCalls < MaxRegCalls
  /\ regCalls' = regCalls + 1
  /\ LET m == regMem[safe_address[w]]
         current_address == StoredIdentity(m)
         Result(res) == [n |-> regCalls', w |-> w, address |-> new_address,
                         signature |-> new_signature, result |-> res]
     IN IF current_address.threw
          THEN /\ lastChange' = Result("invalid_string_size")
               /\ UNCHANGED <<regMem, lastWritten>>
          ELSE IF current_address.value = new_address
            THEN /\ lastChange' = Result("returned")
                 /\ UNCHANGED <<regMem, lastWritten>>
            ELSE IF CheckSignature(new_address, new_signature, w)
              THEN /\ regMem' = [regMem EXCEPT
                                   ![safe_address[w]].address = new_address,
                                   ![safe_address[w]].signature = new_signature]
                   /\ lastWritten' = [lastWritten EXCEPT ![safe_address[w]] = new_address]
                   /\ lastChange' = Result("changed")
              ELSE /\ lastChange' = Result("invalid_signature")
                   /\ UNCHANGED <<regMem, lastWritten>>
  /\ UNCHANGED <<regName, regPc, regObj, safe_address, regCtor, lastGet>>
  /\ UNCHANGED <<tcpVars, shmVars>>

\* ~SafeReadOnlySharedMemory: shared_memory_object::remove(name), then the
\* members are destroyed.
WriterDtor(w) ==
  /\ regPc[w] = "live"
  /\ regName' = 0
  /\ regObj' = [regObj EXCEPT ![w] = 0]
  /\ safe_address' = [safe_address EXCEPT ![w] = 0]
  /\ regPc' = [regPc EXCEPT ![w] = "none"]
  /\ UNCHANGED <<regMem, regCtor, lastChange, lastGet, lastWritten, regCalls>>
  /\ UNCHANGED <<tcpVars, shmVars>>

\* LifeStuffManagerAddressGetter constructor: shared_memory_(open_only, ...)
\* throws when the name does not exist.
ReaderCtorOpen(r) ==
  /\ regPc[r] = "none"
  /\ regCalls < MaxRegCalls
  /\ regCalls' = regCalls + 1
  /\ IF regName = 0
       THEN /\ regCtor' = [regCtor EXCEPT ![r] = "not_found"]
            /\ UNCHANGED <<regObj, regPc>>
       ELSE /\ regObj' = [regObj EXCEPT ![r] = regName]
            /\ regPc' = [regPc EXCEPT ![r] = "ctor_map"]
            /\ regCtor' = [regCtor EXCEPT ![r] = "none"]
  /\ UNCHANGED <<regName, regMem, safe_address, lastChange, lastGet, lastWritten>>
  /\ UNCHANGED <<tcpVars, shmVars>>

\* Constructor: mapped_region_(shared_memory_, read_write) throws on an object
\* whose size was not set yet; safe_address_ points into the mapping.
ReaderCtorMap(r) ==
  /\ regPc[r] = "ctor_map"
  /\ IF regMem[regObj[r]].sized
       THEN /\ safe_address' = [safe_address EXCEPT ![r] = regObj[r]]
            /\ regPc' = [regPc EXCEPT ![r] = "live"]
            /\ regCtor' = [regCtor EXCEPT ![r] = "ok"]
            /\ UNCHANGED regObj
       ELSE /\ regObj' = [regObj EXCEPT ![r] = 0]
            /\ regPc' = [regPc EXCEPT ![r] = "none"]
            /\ regCtor' = [regCtor EXCEPT ![r] = "map_failed"]
            /\ UNCHANGED safe_address
  /\ UNCHANGED <<regName, regMem, lastChange, lastGet, lastWritten, regCalls>>
  /\ UNCHANGED <<tcpVars, shmVars>>

\* GetAddress(), under the lock of the mutex.  Locking the mutex of a region
\* whose SafeAddress was not constructed yet is undefined.
GetAddress(r) ==
  /\ regPc[r] = "live"
  /\ regCalls < MaxRegCalls
  /\ regCalls' = regCalls + 1
  /\ LET m == regMem[safe_address[r]]
         id == StoredIdentity(m)
     IN \E defined \in IF m.built THEN {TRUE} ELSE BOOLEAN :
          lastGet' = [n |-> regCalls', r |-> r, region |-> safe_address[r],
                      defined |-> defined,
                      threw |-> IF defined THEN id.threw ELSE FALSE,
                      value |-> IF defined THEN id.value ELSE <<>>]
  /\ UNCHANGED <<regName, regMem, regPc, regObj, safe_address, regCtor, lastChange,
                 lastWritten>>
  /\ UNCHANGED <<tcpVars, shmVars>>

\* ~LifeStuffManagerAddressGetter: the members are destroyed.
ReaderDtor(r) ==
  /\ regPc[r] = "live"
  /\ regObj' = [regObj EXCEPT ![r] = 0]
  /\ safe_address' = [safe_address EXCEPT ![r] = 0]
  /\ regPc' = [regPc EXCEPT ![r] = "none"]
  /\ UNCHANGED <<regName, regMem, regCtor, lastChange, lastGet, lastWritten, regCalls>>
  /\ UNCHANGED <<tcpVars, shmVars>>

NextReg ==
  \/ \E w \in RegWriters : WriterCtorCreate(w)
  \/ \E w \in RegWriters : WriterCtorTruncate(w)
  \/ \E w \in RegWriters : WriterCtorMap(w)
  \/ \E w \in RegWriters : WriterCtorAddress(w)
  \/ \E w \in RegWriters : WriterCtorSignature(w)
  \/ \E w \in RegWriters, a \in Addresses, s \in Signatures : ChangeAddress(w, a, s)
  \/ \E w \in RegWriters : WriterDtor(w)
  \/ \E r \in RegReaders : ReaderCtorOpen(r)
  \/ \E r \in RegReaders : ReaderCtorMap(r)
  \/ \E r \in RegReaders : GetAddress(r)
  \/ \E r \in RegReaders : ReaderDtor(r)

(***************************************************************************)
(* A connected pair of TcpConnections.                                     *)
(***************************************************************************)
Init == TcpInit /\ ShmInit /\ RegInit

Next ==
  \/ \E e \in Endpoints, cb \in Callbacks, onLoop \in BOOLEAN :
       cb = startCalls[e] + 1 /\ Start(e, cb, cb, onLoop)
  \/ \E e \in Endpoints : Close(e)
  \/ \E e \in Endpoints, data \in Payloads : Send(e, data)
  \/ \E e \in Endpoints : RunReadSize(e)
  \/ \E e \in Endpoints : RunDoClose(e)
  \/ \E e \in Endpoints : OnSizeRead(e)
  \/ \E e \in Endpoints : OnDataRead(e)
  \/ \E e \in Endpoints : DeliverMessage(e)
  \/ \E e \in Endpoints : SendEnqueue(e)
  \/ \E e \in Endpoints : OnWritten(e)
  \/ \E e \in Endpoints : ReadSome(e)
  \/ \E e \in Endpoints : WriteSome(e)
  \/ \E e \in Endpoints : ReadEof(e)
  \/ \E e \in Endpoints : ReadError(e)
  \/ \E e \in Endpoints : WriteError(e)

Spec == Init /\ [][Next]_vars

(***************************************************************************)
(* The read path of one TcpConnection (endpoint 1) whose peer is not a     *)
(* TcpConnection but a process writing arbitrary bytes to the socket       *)
(* (endpoint 2's end); nothing is sent from endpoint 1.                    *)
(***************************************************************************)
RawWrite(b) ==
  /\ nRaw < MaxRawWrites
  /\ sockOpen[1]
  /\ sockOpen[2]
  /\ nRaw' = nRaw + 1
  /\ wire' = [wire EXCEPT ![1] = @ \o b]
  /\ wrote' = [wrote EXCEPT ![2] = @ \o b]
  /\ UNCHANGED <<start_flag, socket_close_flag, sockOpen, on_message_received,
                 on_connection_closed, size_buffer, data_buffer, send_queue, ioq, rops,
                 wops, delivered, closedCalls, shutdowns, sendLog, enqueued,
                 startCalls, closeCalls, nErr>>
  /\ UNCHANGED <<shmVars, regVars>>

RawClose ==
  /\ sockOpen[2]
  /\ sockOpen' = [sockOpen EXCEPT ![2] = FALSE]
  /\ UNCHANGED <<start_flag, socket_close_flag, on_message_received,
                 on_connection_closed, size_buffer, data_buffer, send_queue, ioq, rops,
                 wops, wire, delivered, closedCalls, shutdowns, sendLog, enqueued,
                 wrote, calls>>
  /\ UNCHANGED <<shmVars, regVars>>

NextRaw ==
  \/ \E cb \in Callbacks, onLoop \in BOOLEAN :
       cb = startCalls[1] + 1 /\ Start(1, cb, cb, onLoop)
  \/ Close(1)
  \/ RunReadSize(1)
  \/ RunDoClose(1)
  \/ OnSizeRead(1)
  \/ OnDataRead(1)
  \/ DeliverMessage(1)
  \/ ReadSome(1)
  \/ ReadEof(1)
  \/ ReadError(1)
  \/ \E b \in RawChunks : RawWrite(b)
  \/ RawClose

SpecRaw == Init /\ [][NextRaw]_vars

SpecShm == Init /\ [][NextShm]_vars

\* The receiving thread and the thread running the destructor are scheduled
\* fairly.
SpecShmFair ==
  /\ SpecShm
  /\ \A p \in Procs : WF_vars(ReceiveThreadExit(p)) /\ WF_vars(DtorJoin(p))

SpecReg == Init /\ [][NextReg]_vars

(***************************************************************************)
(* Vocabulary of the properties.                                           *)
(***************************************************************************)
RECURSIVE DataOf(_)
DataOf(log) ==
  IF log = <<>> THEN <<>> ELSE <<Head(log).data>> \o DataOf(Tail(log))

NotThrown(r) == ~r.threw

\* The payloads Send accepted at e, in call order.
Accepted(e) == DataOf(SelectSeq(sendLog[e], NotThrown))

\* The payloads the message functor of e was invoked with, in order.
DeliveredData(e) == DataOf(delivered[e])

IsEnqueue(h) == h.h = "Enqueue"
IsReadSizeCall(h) == h.h = "ReadSize"
IsReadHandler(h) == h.h \in {"OnSize", "OnData", "Deliver", "ReadSize"}
IsSizeRead(op) == op.kind = "size"

RECURSIVE Frames(_)
Frames(payloads) ==
  IF payloads = <<>> THEN <<>>
  ELSE <<0, 0, 0, Len(Head(payloads))>> \o Head(payloads) \o Frames(Tail(payloads))

NoFault == /\ \A e \in Endpoints : closeCalls[e] = 0
           /\ nErr = 0

\* Nothing is left to run or to transfer.
Settled ==
  \A e \in Endpoints : /\ ioq[e] = <<>>
                       /\ wops[e] = <<>>
                       /\ wire[e] = <<>> \/ rops[e] = <<>>

\* The handler at the head of e's queue ran in this step.
HandlerRan(e) ==
  /\ ioq[e] # <<>>
  /\ ~IsPrefix(ioq[e], ioq'[e])

(***************************************************************************)
(* C1: on a connected pair, with both ends started, no Close and no I/O    *)
(* error, the far side's message functor receives the payloads Send        *)
(* accepted, each once and unchanged: at every moment a prefix of them,    *)
(* and all of them once nothing is left to run or to transfer.             *)
(***************************************************************************)
C1_ExactlyOnceDelivery ==
  NoFault =>
    \A e \in Endpoints :
      /\ IsPrefix(DeliveredData(Peer(e)), Accepted(e))
      /\ (Settled /\ start_flag[Peer(e)]) => DeliveredData(Peer(e)) = Accepted(e)

C1_Witness ==
  /\ NoFault
  /\ Settled
  /\ start_flag[1] /\ start_flag[2]
  /\ \E e \in Endpoints : /\ Len(Accepted(e)) >= 2
                          /\ DeliveredData(Peer(e)) = Accepted(e)

(***************************************************************************)
(* C2: per direction, whatever closes or fails, the far side's message     *)
(* functor has observed a prefix of the payloads in the order their        *)
(* enqueue callbacks ran.                                                  *)
(***************************************************************************)
C2_FifoOrder ==
  \A e \in Endpoints : IsPrefix(DeliveredData(Peer(e)), enqueued[e])

C2_Witness ==
  \E e \in Endpoints : /\ Len(enqueued[e]) >= 2
                       /\ Len(enqueued[e][1]) # Len(enqueued[e][2])
                       /\ Len(delivered[Peer(e)]) >= 2

(***************************************************************************)
(* C3: a Send of an empty or an oversized payload throws, schedules no     *)
(* enqueue callback, leaves the outbound FIFO as it is, and no byte of it  *)
(* (nor a length prefix for it) is ever written: the enqueue callbacks run *)
(* or pending are exactly those of the payloads of legal length, and what  *)
(* was written is a prefix of their frames.                                *)
(***************************************************************************)
C3_InvalidSendNeverReachesWire ==
  \A e \in Endpoints :
    /\ \A i \in 1..Len(sendLog[e]) :
         sendLog[e][i].threw <=> (Len(sendLog[e][i].data) = 0
                                  \/ Len(sendLog[e][i].data) > MaxMessageSize)
    /\ \A i \in 1..Len(Accepted(e)) :
         Len(Accepted(e)[i]) \in 1..MaxMessageSize
    /\ enqueued[e] \o DataOf(SelectSeq(ioq[e], IsEnqueue)) = Accepted(e)
    /\ \E k \in 0..Len(enqueued[e]) :
         DataOf(send_queue[e]) = SubSeq(enqueued[e], k + 1, Len(enqueued[e]))
    /\ IsPrefix(wrote[e], Frames(enqueued[e]))

C3_Witness ==
  \E e \in Endpoints :
    /\ \E i \in 1..Len(sendLog[e]) : sendLog[e][i].threw /\ sendLog[e][i].data = <<>>
    /\ \E i \in 1..Len(sendLog[e]) :
         sendLog[e][i].threw /\ Len(sendLog[e][i].data) = MaxMessageSize + 1
    /\ Len(enqueued[e]) >= 1
    /\ wrote[e] = Frames(enqueued[e])

(***************************************************************************)
(* C4: when the handler of the length read finds a length above            *)
(* MaxMessageSize, that step closes the connection, starts no body read,   *)
(* queues no delivery and no further length read.                          *)
(***************************************************************************)
OversizedLengthRead(e) ==
  /\ Running(e, "OnSize")
  /\ ~Head(ioq[e]).ec
  /\ DecodeSize(size_buffer[e]) > MaxMessageSize
  /\ HandlerRan(e)

C4_OversizedLengthCloses ==
  [][\A e \in Endpoints :
       OversizedLengthRead(e) =>
         /\ socket_close_flag'[e]
         /\ ~sockOpen'[e]
         /\ rops'[e] = <<>>
         /\ delivered'[e] = delivered[e]
         /\ SelectSeq(ioq'[e], IsReadHandler) = SelectSeq(Tail(ioq[e]), IsReadHandler)]_vars

C4_Witness ==
  /\ start_flag[1]
  /\ socket_close_flag[1]
  /\ closeCalls[1] = 0 /\ nErr = 0 /\ sockOpen[2]
  /\ DecodeSize(size_buffer[1]) > MaxMessageSize
  /\ Len(closedCalls[1]) = 1
  /\ ioq[1] = <<>>

(***************************************************************************)
(* C5: the closed functor is invoked at most once and the shutdown/close   *)
(* sequence runs at most once, however many Close calls and I/O errors     *)
(* trigger DoClose.                                                        *)
(***************************************************************************)
C5_ClosedAtMostOnce ==
  \A e \in Endpoints : Len(closedCalls[e]) <= 1 /\ shutdowns[e] <= 1

C5_Witness ==
  \E e \in Endpoints : /\ start_flag[e]
                       /\ closeCalls[e] >= 2
                       /\ ioq[e] = <<>>
                       /\ Len(closedCalls[e]) = 1
                       /\ shutdowns[e] = 1

(***************************************************************************)
(* C6: once a channel that was started has torn down and nothing is left   *)
(* to run, its closed functor has been invoked exactly once.               *)
(***************************************************************************)
C6_ClosedExactlyOnce ==
  \A e \in Endpoints :
    (start_flag[e] /\ socket_close_flag[e] /\ ioq[e] = <<>> /\ rops[e] = <<>>)
      => Len(closedCalls[e]) = 1

(***************************************************************************)
(* C7: Start is idempotent: once started, the registered functors never    *)
(* change, a further Start changes nothing of the connection, and there is *)
(* never more than one length read outstanding or about to be started.     *)
(***************************************************************************)
connVars == <<start_flag, socket_close_flag, sockOpen, on_message_received,
              on_connection_closed, size_buffer, data_buffer, send_queue, ioq, rops,
              wops, wire>>

C7_StartIdempotent ==
  /\ [][\A e \in Endpoints :
          start_flag[e] =>
            /\ start_flag'[e]
            /\ on_message_received'[e] = on_message_received[e]
            /\ on_connection_closed'[e] = on_connection_closed[e]
            /\ startCalls'[e] # startCalls[e] => UNCHANGED connVars]_vars
  /\ [](\A e \in Endpoints :
          Len(SelectSeq(rops[e], IsSizeRead))
            + Len(SelectSeq(ioq[e], IsReadSizeCall)) <= 1)

C7_Witness ==
  \E e \in Endpoints : /\ startCalls[e] >= 2
                       /\ on_message_received[e] = 1
                       /\ on_connection_closed[e] = 1
                       /\ Len(delivered[e]) >= 1
                       /\ delivered[e][1].cb = 1

(***************************************************************************)
(* C8: of two creators of the same name, constructed at the same time,     *)
(* exactly one gets past the exclusive create and the other fails with     *)
(* "already exists": once both have done their create step (and neither    *)
(* has been destroyed), one holds the object it created and the other's    *)
(* constructor has thrown.                                                 *)
(***************************************************************************)
Created(c) ==
  pc[c] \in {"ctor_truncate", "ctor_map", "ctor_queue", "ctor_thread", "live"}

CreateFailed(c) == pc[c] = "idle" /\ ctorResult[c] = "already_exists"

C8_ExactlyOneCreatorSucceeds ==
  (\A c \in Creators : Created(c) \/ CreateFailed(c))
    => \E c \in Creators : /\ Created(c)
                           /\ \A d \in Creators \ {c} : CreateFailed(d)

(***************************************************************************)
(* C9: an opener's open of the named object succeeds exactly when the name *)
(* exists at that moment (never created, or removed by the creator's       *)
(* destructor: it throws), no step of an opener's constructor or           *)
(* destructor removes or changes the name, and the region of a live        *)
(* creator that an opener has opened can be mapped.                        *)
(***************************************************************************)
C9_OpenerAttachesIffNameExists ==
  /\ [][\A p \in Openers :
          /\ (pc[p] = "ctor_open" /\ pc'[p] # "ctor_open") =>
               IF nameRegion = 0
                 THEN /\ pc'[p] = "idle"
                      /\ ctorResult'[p] = "not_found"
                      /\ shared_memory'[p] = 0
                 ELSE /\ pc'[p] = "ctor_truncate"
                      /\ shared_memory'[p] = nameRegion
          /\ pc'[p] # pc[p] => nameRegion' = nameRegion]_vars
  /\ [](\A p \in Openers, c \in Creators :
          (pc[p] = "ctor_map" /\ pc[c] = "live" /\ shared_memory[c] = shared_memory[p])
            => regions[shared_memory[p]].sized)

C9_Witness ==
  \E p \in Openers, c \in Creators :
    /\ constructions[p] >= 2
    /\ pc[p] = "live"
    /\ pc[c] = "live"
    /\ nameRegion = shared_memory[c]
    /\ mapped_region[p] = mapped_region[c]

(***************************************************************************)
(* C10: a PushMessage of more than kMessageSize bytes returns false at     *)
(* once (it neither waits nor throws) and leaves every queue as it was; a  *)
(* message of exactly kMessageSize bytes is not refused.                   *)
(***************************************************************************)
C10_OversizedPushRefused ==
  [][\A p \in Procs :
       pushCalls'[p] # pushCalls[p] =>
         /\ lastPush'.p = p
         /\ lastPush'.size > kMessageSize =>
              /\ lastPush'.result = "false"
              /\ pushPending'[p] = <<>>
              /\ regions' = regions
         /\ lastPush'.size = kMessageSize => lastPush'.result \in {"true", "blocked"}]_vars

C10_Witness ==
  /\ lastPush.result = "false"
  /\ lastPush.size = kMessageSize + 1
  /\ pc[lastPush.p] = "live"
  /\ ~HasSpace(CreationTag(lastPush.p), regions[message_queue[lastPush.p]])
  /\ Outbound(CreationTag(lastPush.p), regions[message_queue[lastPush.p]])
       = <<kMessageSize>>

(***************************************************************************)
(* C11: a ChangeAddress whose signature does not verify against the new    *)
(* address under the writer's public key reports invalid_signature and     *)
(* leaves the stored address and signature as they were, whatever the      *)
(* address, the currently stored one included.                             *)
(***************************************************************************)
ChangeAddressReturned == lastChange'.n # lastChange.n

C11_BadSignatureRejected ==
  [][(/\ ChangeAddressReturned
      /\ ~CheckSignature(lastChange'.address, lastChange'.signature, lastChange'.w))
       => /\ lastChange'.result = "invalid_signature"
          /\ regMem' = regMem]_vars

(***************************************************************************)
(* C12: a GetAddress on the region of a constructed writer returns the     *)
(* address of the last write that succeeded: the writer's own address      *)
(* after construction, the new address after each ChangeAddress that       *)
(* changed it, and still that one after a ChangeAddress that failed.       *)
(***************************************************************************)
GetAddressReturned == lastGet'.n # lastGet.n

C12_GetAddressReturnsLastWrite ==
  [][(/\ GetAddressReturned
      /\ \E w \in RegWriters : regPc[w] = "live" /\ safe_address[w] = lastGet'.region)
       => /\ lastGet'.defined
          /\ ~lastGet'.threw
          /\ lastGet'.value = lastWritten[lastGet'.region]]_vars

(***************************************************************************)
(* C13: the register has at most one writer at any time: a writer          *)
(* constructed while the name exists fails in its constructor and leaves   *)
(* the name and every region as they were, and the name goes away only in  *)
(* the destructor of the live writer that holds the region of that name.   *)
(***************************************************************************)
C13_SingleWriter ==
  /\ [][\A w \in RegWriters :
          (regPc[w] = "none" /\ regCalls' # regCalls /\ regName # 0
             /\ (regCtor'[w] # regCtor[w] \/ regPc'[w] # "none"))
            => /\ regPc'[w] = "none"
               /\ regCtor'[w] = "already_exists"
               /\ regObj'[w] = 0
               /\ regName' = regName
               /\ regMem' = regMem]_vars
  /\ [][(regName # 0 /\ regName' # regName)
          => \E w \in RegWriters : /\ regPc[w] = "live"
                                   /\ regObj[w] = regName
                                   /\ regPc'[w] = "none"
                                   /\ regName' = 0]_vars
  /\ [](Cardinality({w \in RegWriters : regPc[w] # "none"}) <= 1)

C13_Witness ==
  \E w \in RegWriters : \E v \in RegWriters \ {w} :
    /\ regPc[w] = "live"
    /\ regName = regObj[w]
    /\ regPc[v] = "none"
    /\ regCtor[v] = "already_exists"
    /\ regMem[regName].address = MaidName(w)
    /\ regMem[regName].signature = Sign(MaidName(w), w)

(***************************************************************************)
(* C14: in the destructor the receiving thread has returned (the join      *)
(* completed) before the instance's mapping is torn down: a running        *)
(* receiving thread always has its queue mapped, and the step that unmaps  *)
(* is taken only once the thread has exited.                               *)
(***************************************************************************)
C14_JoinBeforeUnmap ==
  /\ [](\A p \in Procs :
          receive_future[p] = "running"
            => mapped_region[p] # 0 /\ message_queue[p] = mapped_region[p])
  /\ [][\A p \in Procs :
          (mapped_region[p] # 0 /\ mapped_region'[p] = 0)
            => receive_future[p] = "exited" /\ receive_future'[p] = "none"]_vars

C14_Witness ==
  \E p \in Procs : /\ pc[p] = "idle"
                   /\ ctorResult[p] = "ok"
                   /\ mapped_region[p] = 0
                   /\ receive_future[p] = "none"
                   /\ notified[p] # <<>>

IsWriteHandler(h) == h.h = "OnWrite"

C15_OneWriteInFlight ==
  /\ [][\A e \in Endpoints : send_queue'[e] # send_queue[e] => HandlerRan(e)]_vars
  /\ [](\A e \in Endpoints :
          /\ Len(wops[e]) + Len(SelectSeq(ioq[e], IsWriteHandler)) <= 1
          /\ wops[e] # <<>> =>
               /\ send_queue[e] # <<>>
               /\ Head(wops[e]).bufs = <<Head(send_queue[e]).size_buffer,
                                         Head(send_queue[e]).data>>
          /\ SelectSeq(ioq[e], IsWriteHandler) # <<>> => send_queue[e] # <<>>
          /\ IsPrefix(wrote[e], Frames(enqueued[e])))

C15_Witness ==
  \E e \in Endpoints : /\ Len(send_queue[e]) >= 2
                       /\ wops[e] # <<>>
                       /\ Head(wops[e]).off = 1
                       /\ Len(wrote[e]) > DataSizeBytes

(***************************************************************************)
(* C16: the message functor is invoked only for frames received whole:     *)
(* the frames of the payloads delivered, or queued for delivery, are in    *)
(* order a prefix of the bytes the peer wrote, whatever Close, error or    *)
(* end-of-file aborts a read half way through a prefix or a body; a        *)
(* delivery is queued only by the body read's handler run without error;   *)
(* and never more than one read is outstanding, so the next length read    *)
(* starts only after the body before it was received.                      *)
(***************************************************************************)
IsDeliver(h) == h.h = "Deliver"

Deliveries(e) == DeliveredData(e) \o DataOf(SelectSeq(ioq[e], IsDeliver))

C16_NoPartialFrameDelivery ==
  /\ [](\A e \in Endpoints :
          /\ IsPrefix(Frames(Deliveries(e)), wrote[Peer(e)])
          /\ Len(rops[e]) <= 1)
  /\ [][\A e \in Endpoints :
          Deliveries(e)' # Deliveries(e)
            => /\ Running(e, "OnData")
               /\ ~Head(ioq[e]).ec
               /\ Len(data_buffer[e]) = DecodeSize(size_buffer[e])
               /\ Deliveries(e)' = Append(Deliveries(e), data_buffer[e])]_vars

C16_Witness ==
  /\ start_flag[1]
  /\ socket_close_flag[1]
  /\ ioq[1] = <<>>
  /\ wire[1] = <<>>
  /\ delivered[1] = <<>>
  /\ Len(data_buffer[1]) = MaxMessageSize
  /\ data_buffer[1][1] # 0
  /\ Len(wrote[2]) = DataSizeBytes + 1

(***************************************************************************)
(* C17: a Send of an empty or oversized payload is terminal for the        *)
(* connection: once such a Send was made and the executor has nothing left *)
(* to run, the connection is closed (and, if started, its closed functor   *)
(* was invoked), and no frame of a payload accepted after it is written.   *)
(***************************************************************************)
Threw(r) == r.threw

\* The Send calls up to, not including, the first that threw.
RECURSIVE BeforeFirstThrow(_)
BeforeFirstThrow(log) ==
  IF log = <<>> \/ Head(log).threw THEN <<>>
  ELSE <<Head(log)>> \o BeforeFirstThrow(Tail(log))

C17_InvalidSendIsTerminal ==
  \A e \in Endpoints :
    SelectSeq(sendLog[e], Threw) # <<>>
      => /\ ioq[e] = <<>> => /\ socket_close_flag[e]
                             /\ start_flag[e] => Len(closedCalls[e]) = 1
         /\ IsPrefix(wrote[e], Frames(DataOf(BeforeFirstThrow(sendLog[e]))))

(***************************************************************************)
(* C19: once the closed functor of a connection has been invoked, its      *)
(* message functor is not invoked again.                                   *)
(***************************************************************************)
C19_NoDeliveryAfterClosed ==
  \A e \in Endpoints : \A i \in 1..Len(delivered[e]) : ~delivered[e][i].afterClosed

(***************************************************************************)
(* C20: every payload handed to the message functor is between 1 and       *)
(* MaxMessageSize bytes long: a frame whose length prefix is 0 is not      *)
(* delivered as an empty message.                                          *)
(***************************************************************************)
C20_DeliveredLengthInRange ==
  \A e \in Endpoints : \A i \in 1..Len(delivered[e]) :
    Len(delivered[e][i].data) \in 1..MaxMessageSize

(***************************************************************************)
(* C21: once a writer is constructed, after any sequence of ChangeAddress  *)
(* calls (changing the address, refused, or passing the stored address),   *)
(* the stored signature verifies against the stored address under that     *)
(* writer's public key, between the calls (no ChangeAddress holding the    *)
(* mutex).                                                                 *)
(***************************************************************************)
C21_StoredSignatureVerifies ==
  \A w \in RegWriters :
    regPc[w] = "live"
      => CheckSignature(regMem[safe_address[w]].address,
                        regMem[safe_address[w]].signature, w)

C21_Witness ==
  \E w \in RegWriters :
    /\ regPc[w] = "live"
    /\ lastChange.w = w
    /\ lastChange.result = "changed"
    /\ lastChange.address # MaidName(w)
    /\ regMem[safe_address[w]].address = lastChange.address
    /\ regMem[safe_address[w]].signature = lastChange.signature
    /\ regCalls >= 3

(***************************************************************************)
(* C22: a reader that opened the register never observes a value that is   *)
(* uninitialised or partly written: whatever the interleaving of the       *)
(* writer's construction steps and ChangeAddress with the reader's open    *)
(* and GetAddress, every GetAddress returns an address the writer has      *)
(* fully written to the region read.                                       *)
(***************************************************************************)
C22_ReaderSeesWrittenAddress ==
  [][GetAddressReturned
       => /\ lastGet'.defined
          /\ ~lastGet'.threw
          /\ lastWritten[lastGet'.region] # <<>>
          /\ lastGet'.value = lastWritten[lastGet'.region]]_vars

====
